---- MODULE Spec2Model ----
(***************************************************************************)
(* PayPal Manager (Streamlit app + GitHub contents-API storage).           *)
(*                                                                         *)
(* The model follows src/main.py (the script that Streamlit re-executes    *)
(* top to bottom on every interaction) and src/github_storage.py (the      *)
(* GitHubStorage class).  Every HTTP request of the storage class is one   *)
(* step of the session, so that another writer can act between two         *)
(* requests; everything the script does between two requests is part of    *)
(* the step of the request that precedes it.                               *)
(*                                                                         *)
(* Values.  A pandas DataFrame is a sequence of records; a CSV blob is a   *)
(* sequence of records of strings; the metadata dict is a function from    *)
(* key strings to values (a missing key is a key not in its DOMAIN).       *)
(***************************************************************************)
EXTENDS Integers, Sequences, FiniteSets, TLC

(***************************************************************************)
(* Bounds of the model.                                                    *)
(***************************************************************************)
\* number of uploads of the session
MaxImports == 1
\* the clock (seconds) runs from 0 to MaxTime
MaxTime == 1
\* number of writes by other sessions
MaxOther == 1
\* number of requests that fail in transit or are answered with an error
MaxFaults == 1
\* number of uploads and clicks after which the session clicks no button
MaxClicks == 2

(***************************************************************************)
(* Cell values.                                                            *)
(***************************************************************************)
\* pandas' missing value in an object/float column
NaN == "<NaN>"
\* pandas' missing value in a datetime column
NaT == 0
\* Python's None where the code holds a timestamp string or None
None == -1

\* the calendar days the model knows, as to_csv writes them
IsoDays == <<"2024-01-01", "2024-01-02", "2024-01-03">>

\* str(i) of a small integer
Str(i) ==
  CASE i = 0 -> "0" [] i = 1 -> "1" [] i = 2 -> "2" [] i = 3 -> "3"
    [] i = 4 -> "4" [] i = 5 -> "5" [] i = 6 -> "6" [] i = 7 -> "7"
    [] i = 8 -> "8" [] OTHER -> "9"

\* pd.to_datetime(cell, errors='coerce'): a day number, NaT when unparseable
ToDatetime(s) ==
  IF \E d \in 1..Len(IsoDays) : IsoDays[d] = s
  THEN CHOOSE d \in 1..Len(IsoDays) : IsoDays[d] = s
  ELSE NaT

\* how to_csv writes a datetime cell
DateToCsv(d) == IF d = NaT THEN "" ELSE IsoDays[d]

\* how to_csv writes a text cell: NaN is the empty field
TextToCsv(v) == IF v = NaN THEN "" ELSE v

\* how read_csv reads a text cell: the empty field is NaN
CsvToText(s) == IF s = "" THEN NaN ELSE s

\* Series.fillna("")
FillNa(v) == IF v = NaN THEN "" ELSE v

(***************************************************************************)
(* The uploaded files: what pd.read_excel yields for each (the raw cells   *)
(* of the columns 'Codice transazione', 'Data', 'Nome'), the md5 of the    *)
(* bytes and the file name as <<stem, extension>>.  The first two are the  *)
(* {A,B} / {B,C} scenario, the next two carry no transaction codes, the    *)
(* fifth mixes a code with a missing one, the sixth repeats a code inside  *)
(* the batch, the seventh has the rows of the fifth in a different file    *)
(* (other bytes, same name).                                               *)
(***************************************************************************)
Raw(c, d, n) == [codice_transazione |-> c, data |-> d, nome |-> n]

Files == <<
  [hash |-> "h1", name |-> <<"jan", ".xlsx">>,
   rows |-> <<Raw("A", "2024-01-02", "n1"), Raw("B", "2024-01-01", "n2")>>],
  [hash |-> "h2", name |-> <<"feb", ".xlsx">>,
   rows |-> <<Raw("B", "2024-01-01", "n2"), Raw("C", "2024-01-03", "n3")>>],
  [hash |-> "h3", name |-> <<"mar", ".xls">>,
   rows |-> <<Raw(NaN, "2024-01-01", "n4"), Raw(NaN, "n/a", "n5")>>],
  [hash |-> "h4", name |-> <<"apr", ".xls">>,
   rows |-> <<Raw(NaN, "2024-01-02", "n6")>>],
  [hash |-> "h5", name |-> <<"may", ".xlsx">>,
   rows |-> <<Raw("A", "2024-01-02", "n1"), Raw(NaN, "", "n7")>>],
  [hash |-> "h6", name |-> <<"jun", ".xlsx">>,
   rows |-> <<Raw("C", "2024-01-01", "n8"), Raw("C", "2024-01-01", "n9")>>],
  [hash |-> "h7", name |-> <<"may", ".xlsx">>,
   rows |-> <<Raw("A", "2024-01-02", "n1"), Raw(NaN, "", "n7")>>] >>

NoFile == 0

\* the files other sessions upload
OtherFiles == {2}

\* the files a repository may hold when the session starts
InstalledFiles == {1, 3, 5}

\* the files uploaded by a session that also clicks buttons
AppFiles == {7}

\* the files uploaded by a session that races with other writers
RaceFiles == {1}

(***************************************************************************)
(* clean_and_standardize_df                                                *)
(***************************************************************************)
\* 'codice_transazione' of row i (index i-1) of the batch, lines 96-100
CodiceSintetico(i) == "TXN_" \o Str(i - 1)

CodiceTransazione(rows, i) ==
  IF \A k \in 1..Len(rows) : rows[k].codice_transazione = NaN
  THEN CodiceSintetico(i)
  ELSE FillNa(rows[i].codice_transazione)

clean_and_standardize_df(rows) ==
  [i \in 1..Len(rows) |->
     [codice_transazione |-> CodiceTransazione(rows, i),
      data |-> ToDatetime(rows[i].data),
      nome |-> FillNa(rows[i].nome),
      categoria |-> "",
      id_univoco |-> CodiceTransazione(rows, i) \o "_" \o Str(i - 1)]]

(***************************************************************************)
(* GitHubStorage.save_dataframe / load_dataframe: the CSV codec            *)
(***************************************************************************)
\* df.to_csv(index=False)
to_csv(df) ==
  [i \in 1..Len(df) |->
     [codice_transazione |-> TextToCsv(df[i].codice_transazione),
      data |-> DateToCsv(df[i].data),
      nome |-> TextToCsv(df[i].nome),
      categoria |-> TextToCsv(df[i].categoria),
      id_univoco |-> TextToCsv(df[i].id_univoco),
      import_id |-> TextToCsv(df[i].import_id)]]

\* pd.read_csv followed by the to_datetime of the 'data' column
read_csv(rows) ==
  [i \in 1..Len(rows) |->
     [codice_transazione |-> CsvToText(rows[i].codice_transazione),
      data |-> ToDatetime(rows[i].data),
      nome |-> CsvToText(rows[i].nome),
      categoria |-> CsvToText(rows[i].categoria),
      id_univoco |-> CsvToText(rows[i].id_univoco),
      import_id |-> CsvToText(rows[i].import_id)]]

\* pd.DataFrame()
EmptyDataFrame == <<>>

(***************************************************************************)
(* add_import_to_historical: the merge                                     *)
(***************************************************************************)
\* lines 153-157: the batch stamped with its provenance
StampImport(new_data, import_id) ==
  [i \in 1..Len(new_data) |->
     [codice_transazione |-> new_data[i].codice_transazione,
      data |-> new_data[i].data,
      nome |-> new_data[i].nome,
      categoria |-> new_data[i].categoria,
      id_univoco |-> new_data[i].id_univoco,
      import_id |-> import_id]]

\* line 164: set(historical_df['codice_transazione'].dropna())
existing_codes(historical_df) ==
  {historical_df[i].codice_transazione : i \in 1..Len(historical_df)} \ {NaN}

\* the mask of line 165 without its negation
IsNewTransaction_inverted(r, historical_df) ==
  r.codice_transazione \in existing_codes(historical_df)

\* line 165: the rows of the batch whose code is not among the existing ones
IsNewTransaction(r, historical_df) ==
  r.codice_transazione \notin existing_codes(historical_df)

new_transactions(new_data_copy, historical_df) ==
  SelectSeq(new_data_copy, LAMBDA r : IsNewTransaction(r, historical_df))

\* line 178: sort_values('data', ascending=False).  Row j has to come before
\* row i when it is dated later, when it is dated and i is not (na_position
\* 'last'), or when both are NaT and j came first (pandas appends the NaT
\* rows in their order).  Two rows of the same date come out in the order
\* the default kind='quicksort' leaves them in, which pandas documents as
\* not stable: either order is an outcome.
ComesBefore_ascending(df, j, i) ==
  \/ df[j].data # NaT /\ df[i].data # NaT /\ df[j].data < df[i].data
  \/ df[j].data # NaT /\ df[i].data = NaT
  \/ df[j].data = NaT /\ df[i].data = NaT /\ j < i

ComesBefore(df, j, i) ==
  \/ df[j].data # NaT /\ df[i].data # NaT /\ df[j].data > df[i].data
  \/ df[j].data # NaT /\ df[i].data = NaT
  \/ df[j].data = NaT /\ df[i].data = NaT /\ j < i

RECURSIVE Arrangements(_, _)
Arrangements(df, S) ==
  IF S = {} THEN {<<>>}
  ELSE UNION {{<<df[i]>> \o t : t \in Arrangements(df, S \ {i})} :
                i \in {k \in S : \A j \in S \ {k} : ~ComesBefore(df, j, k)}}

sort_values(df) == Arrangements(df, 1..Len(df))

(***************************************************************************)
(* The metadata dict                                                       *)
(***************************************************************************)
\* {}
EmptyDict == [k \in {} |-> None]

\* d.get(key, default)
Get(d, key, default) == IF key \in DOMAIN d THEN d[key] ELSE default

\* d[key] = value
Put(d, key, value) ==
  [k \in DOMAIN d \cup {key} |-> IF k = key THEN value ELSE d[k]]

\* del d[key]
DictDel_keeps(d, key) == d

DictDel(d, key) == [k \in DOMAIN d \ {key} |-> d[k]]

\* the elements of a list
Range(l) == {l[i] : i \in 1..Len(l)}

\* list.remove(x) without effect
ListRemove_none(l, x) == l

\* list.remove(x) on a list that holds x: the first element equal to x goes
ListRemove(l, x) ==
  LET k == CHOOSE i \in 1..Len(l) : l[i] = x /\ \A j \in 1..(i - 1) : l[j] # x
  IN  SubSeq(l, 1, k - 1) \o SubSeq(l, k + 1, Len(l))

\* the lists that hold the elements of a set once each, in any order (the
\* order in which a Python set of strings is iterated)
RECURSIVE Orders(_)
Orders(S) ==
  IF S = {} THEN {<<>>}
  ELSE UNION {{<<x>> \o o : o \in Orders(S \ {x})} : x \in S}

\* load_metadata's default document, lines 141-151
DefaultMetadata ==
  [import_history |-> <<>>,
   last_update |-> None,
   categories |-> <<"Software", "Domini e Hosting", "Servizi Web", "Abbonamenti",
                    "Hardware", "Consulenze", "Marketing", "Altro">>,
   subcategories |->
     ("Software" :> <<"Licenze", "Abbonamenti SaaS", "Plugin", "Applicazioni">>)
     @@ ("Domini e Hosting" :> <<"Registrazione Domini", "Hosting Web", "SSL", "CDN">>)
     @@ ("Servizi Web" :> <<"API", "Cloud Storage", "Email Service", "Backup">>)
     @@ ("Marketing" :> <<"Advertising", "Social Media", "Email Marketing", "SEO Tools">>)]

(***************************************************************************)
(* The remote store: one blob per path, versioned by its content hash.     *)
(***************************************************************************)
\* a path with no blob
Absent == [ex |-> FALSE, body |-> <<>>]

Blob(body) == [ex |-> TRUE, body |-> body]

\* the 'sha' of a blob: a hash of its content, kept as the content itself
NoSha == [some |-> FALSE, of |-> <<>>]

ShaOf(doc) == [some |-> TRUE, of |-> doc.body]

\* GET <contents>/<path>: 200 with the blob when it exists, 404 when it does
\* not; a request can also fail (another status, or a transport exception)
Answer(doc) == IF doc.ex THEN "200" ELSE "non200"

Responses(doc, failures) ==
  {Answer(doc)} \cup (IF failures THEN {"non200", "exc"} ELSE {})

\* PUT <contents>/<path> {content, sha?}: a create needs no blob and no sha,
\* an update needs the sha of the blob; anything else is refused
PutAccepted(doc, token) ==
  IF doc.ex THEN token = ShaOf(doc) ELSE token = NoSha

PutAnswer(doc, token) == IF PutAccepted(doc, token) THEN "2xx" ELSE "non2xx"

\* a PUT that fails (another status, or a transport exception) stores nothing:
\* an in-flight write either completes or fails
PutResponses(doc, token, failures) ==
  {PutAnswer(doc, token)} \cup (IF failures THEN {"non2xx", "exc"} ELSE {})

(***************************************************************************)
(* GitHubStorage: what each method returns for a response                  *)
(***************************************************************************)
\* how a piece of code ends: with a value, or with an exception
Return(v) == [raised |-> FALSE, value |-> v]

Raise == [raised |-> TRUE, value |-> <<>>]

\* requests.get(...) and what the method computes from the response: the
\* request raises on a transport error
Request(resp, value) == IF resp = "exc" THEN Raise ELSE Return(value)

\* try: <attempt>, without its except clause
Try_reraise(attempt, fallback) == attempt

\* try: <attempt> / except: return <fallback>
Try(attempt, fallback) ==
  IF attempt.raised THEN Return(fallback) ELSE attempt

\* the four reading methods: how each ends for a response
GitHubStorage(method, doc, resp) ==
  CASE method = "file_exists" ->
         Try(Request(resp, resp = "200"), FALSE)
    [] method = "get_file_sha" ->
         Try(Request(resp, IF resp = "200" THEN ShaOf(doc) ELSE NoSha), NoSha)
    [] method = "load_dataframe" ->
         Try(Request(resp, IF resp = "200" THEN read_csv(doc.body)
                                            ELSE EmptyDataFrame),
             EmptyDataFrame)
    [] method = "load_metadata" ->
         Try(Request(resp, IF resp = "200" THEN doc.body ELSE DefaultMetadata),
             EmptyDict)

file_exists(resp) == GitHubStorage("file_exists", Absent, resp).value

\* a get_file_sha that answers with a sha whatever the response
get_file_sha_unchecked(doc, resp) == ShaOf(doc)

get_file_sha(doc, resp) == GitHubStorage("get_file_sha", doc, resp).value

load_dataframe(doc, resp) == GitHubStorage("load_dataframe", doc, resp).value

load_metadata(doc, resp) == GitHubStorage("load_metadata", doc, resp).value

\* save_metadata without its line 101
StampLastUpdate_none(md, t) == md

\* save_metadata line 101: the document as it goes out
StampLastUpdate(md, t) == Put(md, "last_update", t)

\* a save that reports success whatever the response
SaveResult_always(resp) == "ok"

\* the return value of save_dataframe / save_metadata, line 63 / 124
SaveResult(resp) == IF resp = "2xx" THEN "ok" ELSE "failed"

(***************************************************************************)
(* main.py: the pieces of the upload handler between two requests          *)
(***************************************************************************)
\* generate_import_id, lines 218-222; the stems of Files are shorter than
\* the 20 characters the name part is cut to
generate_import_id(filename, t) == "PP_" \o Str(t) \o "_" \o filename[1]

\* lines 350-357
ImportMetadata(f, t) ==
  [import_id |-> generate_import_id(Files[f].name, t),
   filename |-> Files[f].name,
   import_datetime |-> t,
   total_records |-> Len(Files[f].rows),
   file_hash |-> Files[f].hash]

\* line 338
existing_hashes(md) ==
  {Get(md, "import_history", <<>>)[i].file_hash :
     i \in 1..Len(Get(md, "import_history", <<>>))}

\* line 340: the fingerprint guard
AlreadyUploaded(f, md) == Files[f].hash \in existing_hashes(md)

\* lines 363-364 and the stamp of save_metadata, line 101
RecordImport(md, entry, t) ==
  StampLastUpdate(
    Put(md, "import_history", Append(Get(md, "import_history", <<>>), entry)), t)

\* line 167 never taken: the ledger is saved again
AllDuplicates_never(nt) == FALSE

\* line 167: no row of the batch is new
AllDuplicates(nt) == Len(nt) = 0

\* add_import_to_historical after the load, lines 153-178: what it is about
\* to save (write), the rows it keeps of the batch, the frame it returns,
\* and the two counts of the message of line 171
add_import_to_historical(historical_df, new_data, import_id) ==
  LET stamped == StampImport(new_data, import_id)
      nt == new_transactions(stamped, historical_df)
  IN  IF Len(historical_df) = 0
      THEN {[write |-> TRUE, new_data_copy |-> stamped, updated_historical |-> u,
             aggiunte |-> None, evitati |-> None] : u \in sort_values(stamped)}
      ELSE IF AllDuplicates(nt)
      THEN {[write |-> FALSE, new_data_copy |-> stamped,
             updated_historical |-> historical_df,
             aggiunte |-> None, evitati |-> None]}
      ELSE {[write |-> TRUE, new_data_copy |-> nt, updated_historical |-> u,
             aggiunte |-> Len(nt), evitati |-> Len(stamped) - Len(nt)] :
              u \in sort_values(historical_df \o nt)}

(***************************************************************************)
(* main.py: the category handlers, the remove-import handler and the       *)
(* edit-save handler between two requests                                  *)
(***************************************************************************)
\* what the user may type into the 'Nome categoria' field
Texts == {"", "  ", " Viaggi ", "Software"}

\* str.strip() on the texts of the model
Strip(text) ==
  CASE text = "  " -> ""
    [] text = " Viaggi " -> "Viaggi"
    [] OTHER -> text

\* the buttons del_cat_<i> / del_imp_<i> the user may press, the row of the
\* editor the user may change and the option the user may select in it
CategoryButtons == {1, 8}

ImportButtons == {1, 2}

EditRows == {1}

EditValues == {"Software"}

\* a click: the key of the button, the index in the key, the text typed or
\* the option selected
Click(key, i, value) == [key |-> key, i |-> i, value |-> value]

NoClick == Click("none", 0, "")

\* lines 268-270 without their conditions
ValidName_any(new_category, categories) == TRUE

\* lines 268-270: the name is taken
ValidName(new_category, categories) ==
  /\ new_category # ""
  /\ Strip(new_category) # ""
  /\ Strip(new_category) \notin Range(categories)

\* lines 271-275 and the stamp of save_metadata
add_category(md, new_category, t) ==
  LET name == Strip(new_category)
      md1 == Put(md, "categories", Append(Get(md, "categories", <<>>), name))
      md2 == IF "subcategories" \in DOMAIN md1 THEN md1
             ELSE Put(md1, "subcategories", EmptyDict)
  IN  StampLastUpdate(
        Put(md2, "subcategories", Put(md2["subcategories"], name, <<>>)), t)

\* lines 293-296 and the stamp of save_metadata: cat is categories[i]
remove_category(md, i, t) ==
  LET categories == Get(md, "categories", <<>>)
      cat == categories[i]
      subcategories == Get(md, "subcategories", EmptyDict)
      md1 == IF cat \in DOMAIN subcategories
             THEN Put(md, "subcategories", DictDel(subcategories, cat))
             ELSE md
  IN  StampLastUpdate(Put(md1, "categories", ListRemove(categories, cat)), t)

\* line 317: the rows of the ledger that are not of the import
without_import(historical_df, imp) ==
  SelectSeq(historical_df, LAMBDA r : r.import_id # imp.import_id)

\* lines 320-322 and the stamp of save_metadata: imp is import_history[i]
remove_import(md, i, t) ==
  LET import_history == Get(md, "import_history", <<>>)
  IN  StampLastUpdate(
        Put(md, "import_history", ListRemove(import_history, import_history[i])),
        t)

\* str(cell) of line 484: a missing value becomes the text 'nan'
StrCell(v) == IF v = NaN THEN "nan" ELSE v

\* st.data_editor: the frame of the editor after the user has selected
\* value as the 'categoria' of row i
edited_df(df, i, value) == [df EXCEPT ![i].categoria = value]

\* lines 473-487: every row of the editor is written onto the rows of the
\* ledger that carry the id_univoco of its original; the last one written
\* stays
edit_historical(historical_df, edited) ==
  [k \in 1..Len(historical_df) |->
     LET last == CHOOSE j \in 1..Len(historical_df) :
                   /\ historical_df[j].id_univoco = historical_df[k].id_univoco
                   /\ \A m \in (j + 1)..Len(historical_df) :
                        historical_df[m].id_univoco # historical_df[k].id_univoco
     IN  [historical_df[k] EXCEPT !.categoria = StrCell(edited[last].categoria)]]

\* lines 492-498 and the stamp of save_metadata: the categories of the
\* editor that are not in the list are appended, in the order of a set
update_categories(md, edited, t) ==
  LET categories == Get(md, "categories", <<>>)
      new_categories == {edited[i].categoria : i \in 1..Len(edited)} \ {NaN}
      added == {cat \in new_categories :
                  cat # "" /\ Strip(cat) # "" /\ cat \notin Range(categories)}
  IN  {StampLastUpdate(Put(md, "categories", categories \o o), t) :
         o \in Orders(added)}

(***************************************************************************)
(* State                                                                   *)
(***************************************************************************)
VARIABLES
  now,                \* the wall clock, in seconds, when last read
  ledgerDoc,          \* data/paypal_history_complete.csv in the repository
  metaDoc,            \* data/system_metadata.json in the repository
  pc,                 \* the request the script run is about to send
  uploaded_file,      \* the file in the uploader (an index of Files) or NoFile
  clicked,            \* the button whose click started the run, or NoClick
  metadata,           \* main.py: metadata (line 254)
  historical_df,      \* main.py: historical_df (lines 302, 150, 317, 360)
  import_metadata,    \* main.py: import_metadata (line 350)
  new_data_copy,      \* add_import_to_historical: the rows kept of the batch
  updated_historical, \* the frame handed to save_historical_data
  sha,                \* save_dataframe / save_metadata: sha (line 54 / 116)
  response,           \* the response to the last request of the run
  ledger_saved,       \* what save_dataframe returned in this run
  metadata_saved,     \* what save_metadata returned in this run
  message,            \* what the handler tells the user at its end
  aggiunte,           \* line 171: the number of new transactions reported
  evitati,            \* line 171: the number of duplicates reported
  result,             \* how the last call of a reading method on its own ended
  uploads,            \* uploads so far
  clicks,             \* clicks so far
  others,             \* writes of other sessions so far
  faults,             \* failed requests so far
  seenLedger,         \* history: the ledger blob when this run last read it
  seenMeta,           \* history: the metadata blob when this run read it
  imported,           \* history: fingerprints whose import ran
  found               \* history: what file_exists answered the save under way

store == <<ledgerDoc, metaDoc>>
locals == <<import_metadata, new_data_copy, updated_historical, sha,
            aggiunte, evitati>>
results == <<ledger_saved, metadata_saved, message>>
history == <<seenLedger, seenMeta, imported, found>>
widgets == <<uploaded_file, clicked, uploads, clicks>>
vars == <<now, ledgerDoc, metaDoc, pc, uploaded_file, clicked, metadata,
          historical_df, import_metadata, new_data_copy, updated_historical,
          sha, response, ledger_saved, metadata_saved, message, aggiunte,
          evitati, result, uploads, clicks, others, faults, seenLedger,
          seenMeta, imported, found>>

\* a request may fail while the model's budget of failures lasts; a failed
\* request is one whose response is not the API's answer
MayFail == faults < MaxFaults

Count(resp, answer) == faults' = IF resp = answer THEN faults ELSE faults + 1

NoImport ==
  [import_id |-> "", filename |-> <<"", "">>, import_datetime |-> None,
   total_records |-> 0, file_hash |-> ""]

NoResult ==
  [method |-> "none", doc |-> Absent, resp |-> "none", raised |-> FALSE,
   value |-> <<>>]

\* The repository after one import of file f at second 0 into an empty
\* repository, every request answered: what ScriptRun .. SaveMetadataPut
\* leave behind.
Installed(f) ==
  LET entry == ImportMetadata(f, 0)
  IN  {[ledgerDoc |-> Blob(to_csv(r.updated_historical)),
        metaDoc |-> Blob(RecordImport(DefaultMetadata, entry, 0))] :
         r \in add_import_to_historical(
                 EmptyDataFrame, clean_and_standardize_df(Files[f].rows),
                 entry.import_id)}

\* The session starts on an empty repository or on one that holds one import.
Init ==
  /\ now = 0
  /\ \/ /\ ledgerDoc = Absent
        /\ metaDoc = Absent
        /\ imported = {}
     \/ \E f \in InstalledFiles : \E s \in Installed(f) :
          /\ ledgerDoc = s.ledgerDoc
          /\ metaDoc = s.metaDoc
          /\ imported = {Files[f].hash}
  /\ pc = "idle"
  /\ uploaded_file = NoFile
  /\ clicked = NoClick
  /\ metadata = EmptyDict
  /\ historical_df = EmptyDataFrame
  /\ import_metadata = NoImport
  /\ new_data_copy = <<>>
  /\ updated_historical = <<>>
  /\ sha = NoSha
  /\ response = "none"
  /\ ledger_saved = "none"
  /\ metadata_saved = "none"
  /\ message = "none"
  /\ aggiunte = None
  /\ evitati = None
  /\ result = NoResult
  /\ uploads = 0
  /\ clicks = 0
  /\ others = 0
  /\ faults = 0
  /\ seenLedger = Absent
  /\ seenMeta = Absent
  /\ found = FALSE

(***************************************************************************)
(* The script run.  Streamlit runs main.py from the top on every           *)
(* interaction (a file put into the uploader, a click on a button); the    *)
(* run ends at st.rerun() or at the end of the script.  A run that a click *)
(* starts finds the uploader empty.                                        *)
(***************************************************************************)
\* datetime.now(): the clock is read where the code reads it, and any time
\* may have passed since the last reading
Clock == now..MaxTime

\* load_paypal_excel(uploaded_file), lines 108-117
paypal_df == clean_and_standardize_df(Files[uploaded_file].rows)

\* the start of a run with file f in the uploader and click c: the names of
\* the script are unbound
StartRun(f, c) ==
  /\ pc = "idle"
  /\ uploaded_file' = f
  /\ clicked' = c
  /\ uploads' = IF f # NoFile THEN uploads + 1 ELSE uploads
  /\ clicks' = IF c # NoClick THEN clicks + 1 ELSE clicks
  /\ seenMeta' = metaDoc
  /\ seenLedger' = Absent
  /\ historical_df' = EmptyDataFrame
  /\ import_metadata' = NoImport
  /\ new_data_copy' = <<>>
  /\ updated_historical' = <<>>
  /\ sha' = NoSha
  /\ aggiunte' = None
  /\ evitati' = None
  /\ ledger_saved' = "none"
  /\ metadata_saved' = "none"
  /\ found' = FALSE
  /\ UNCHANGED <<store, others, imported, result>>

\* line 254: the run loads the metadata and no handler of a category acts
LoadMetadata ==
  /\ \E resp \in Responses(metaDoc, MayFail) :
       /\ metadata' = load_metadata(metaDoc, resp)
       /\ Count(resp, Answer(metaDoc))
       /\ response' = resp
  /\ message' = "none"
  /\ pc' = "load_historical"
  /\ UNCHANGED now

\* A run starts with one of the files, or none, in the uploader; line 254
\* loads the metadata.
RunWith(files) ==
  /\ \E f \in {NoFile} \cup files :
       /\ f # NoFile => uploads < MaxImports
       /\ StartRun(f, NoClick)
  /\ LoadMetadata

ScriptRun == RunWith(1..Len(Files))

ScriptRunApp == RunWith(AppFiles)

ScriptRunRace == RunWith(RaceFiles)

\* the session may still click a button
MayClick == uploads + clicks < MaxClicks

\* A click on 'Aggiungi' with some text in the field: line 254 loads the
\* metadata, lines 268-282 handle the click.  A name that is taken goes
\* into the document, which save_metadata stamps; otherwise the handler
\* warns and the script goes on.
AddCategory ==
  /\ MayClick
  /\ \E new_category \in Texts :
       /\ StartRun(NoFile, Click("add_cat_btn", 0, new_category))
       /\ \E resp \in Responses(metaDoc, MayFail) :
            LET md == load_metadata(metaDoc, resp)
            IN  /\ Count(resp, Answer(metaDoc))
                /\ response' = resp
                /\ IF ValidName(new_category, Get(md, "categories", <<>>))
                   THEN /\ \E t \in Clock :
                             /\ now' = t
                             /\ metadata' = add_category(md, new_category, t)
                        /\ message' = "none"
                        /\ pc' = "md_exists"
                   ELSE /\ metadata' = md
                        /\ message' = IF new_category # "" /\ Strip(new_category) # ""
                                      THEN "categoria_gia_esistente"
                                      ELSE "nome_non_valido"
                        /\ pc' = "load_historical"
                        /\ UNCHANGED now

\* A click on the bin of the i-th category: line 254 loads the metadata,
\* lines 291-298 handle the click when the list loaded has an i-th element.
RemoveCategory ==
  /\ MayClick
  /\ \E i \in CategoryButtons :
       /\ StartRun(NoFile, Click("del_cat", i, ""))
       /\ \E resp \in Responses(metaDoc, MayFail) :
            LET md == load_metadata(metaDoc, resp)
            IN  /\ Count(resp, Answer(metaDoc))
                /\ response' = resp
                /\ message' = "none"
                /\ IF i <= Len(Get(md, "categories", <<>>))
                   THEN /\ \E t \in Clock :
                             /\ now' = t
                             /\ metadata' = remove_category(md, i, t)
                        /\ pc' = "md_exists"
                   ELSE /\ metadata' = md
                        /\ pc' = "load_historical"
                        /\ UNCHANGED now

\* A click on the bin of the i-th import; the handler follows line 302.
ClickRemoveImport ==
  /\ MayClick
  /\ \E i \in ImportButtons : StartRun(NoFile, Click("del_imp", i, ""))
  /\ LoadMetadata

\* A click on 'Salva su GitHub' after the user has selected a category in a
\* row of the editor; the handler follows line 302.
ClickSalva ==
  /\ MayClick
  /\ \E i \in EditRows, value \in EditValues :
       StartRun(NoFile, Click("salva", i, value))
  /\ LoadMetadata

\* lines 315-318: the remove-import handler up to its first request
RemoveImportHandler(hist) ==
  LET imp == Get(metadata, "import_history", <<>>)[clicked.i]
  IN  IF Len(hist) > 0
      THEN /\ historical_df' = without_import(hist, imp)
           /\ updated_historical' = without_import(hist, imp)
           /\ pc' = "df_exists"
           /\ UNCHANGED <<now, metadata>>
      ELSE /\ historical_df' = hist
           /\ \E t \in Clock :
                /\ now' = t
                /\ metadata' = remove_import(metadata, clicked.i, t)
           /\ pc' = "md_exists"
           /\ UNCHANGED updated_historical

\* lines 336-357: the upload handler up to add_import_to_historical
UploadHandler(hist) ==
  /\ historical_df' = hist
  /\ IF AlreadyUploaded(uploaded_file, metadata)
     THEN /\ pc' = "idle"
          /\ message' = "file_gia_caricato"
          /\ UNCHANGED <<now, import_metadata, imported>>
     ELSE /\ pc' = "add_import"
          /\ \E t \in Clock :
               /\ now' = t
               /\ import_metadata' = ImportMetadata(uploaded_file, t)
          /\ imported' = imported \cup {Files[uploaded_file].hash}
          /\ UNCHANGED message

\* the editor is shown (lines 373, 408, 437) and has the row and the option
EditorShown(hist) ==
  /\ Len(Get(metadata, "import_history", <<>>)) > 0
  /\ clicked.i <= Len(hist)
  /\ clicked.value \in Range(Get(metadata, "categories", <<>>))

\* lines 468-489: the edit-save handler up to its first request
EditSaveHandler(hist) ==
  /\ historical_df' = hist
  /\ updated_historical' =
       edit_historical(hist, edited_df(hist, clicked.i, clicked.value))
  /\ pc' = "df_exists"

\* Line 302 loads the ledger; the script then reaches the handler of the
\* click, or of the file in the uploader, if any.
LoadHistorical ==
  /\ pc = "load_historical"
  /\ \E resp \in Responses(ledgerDoc, MayFail) :
       LET hist == load_dataframe(ledgerDoc, resp)
       IN  /\ Count(resp, Answer(ledgerDoc))
           /\ response' = resp
           /\ CASE /\ clicked.key = "del_imp"
                   /\ clicked.i <= Len(Get(metadata, "import_history", <<>>)) ->
                     /\ RemoveImportHandler(hist)
                     /\ UNCHANGED <<message, import_metadata, imported>>
                [] uploaded_file # NoFile ->
                     /\ UploadHandler(hist)
                     /\ UNCHANGED <<metadata, updated_historical>>
                [] clicked.key = "salva" /\ EditorShown(hist) ->
                     /\ EditSaveHandler(hist)
                     /\ UNCHANGED <<now, metadata, message, import_metadata,
                                    imported>>
                [] OTHER ->
                     /\ historical_df' = hist
                     /\ pc' = "idle"
                     /\ UNCHANGED <<now, metadata, updated_historical, message,
                                    import_metadata, imported>>
  /\ seenLedger' = ledgerDoc
  /\ UNCHANGED <<store, widgets, new_data_copy, sha, aggiunte, evitati,
                 ledger_saved, metadata_saved, result, others, seenMeta, found>>

\* add_import_to_historical up to its save: line 150 loads the ledger again,
\* lines 153-178 merge.  When every row is a duplicate the function returns
\* at line 169 and the handler goes on to lines 363-365.
AddImport ==
  /\ pc = "add_import"
  /\ \E resp \in Responses(ledgerDoc, MayFail) :
       /\ historical_df' = load_dataframe(ledgerDoc, resp)
       /\ Count(resp, Answer(ledgerDoc))
       /\ response' = resp
       /\ \E r \in add_import_to_historical(load_dataframe(ledgerDoc, resp),
                                           paypal_df, import_metadata.import_id) :
            /\ new_data_copy' = r.new_data_copy
            /\ updated_historical' = r.updated_historical
            /\ aggiunte' = r.aggiunte
            /\ evitati' = r.evitati
            /\ IF r.write
               THEN pc' = "df_exists" /\ UNCHANGED <<now, metadata>>
               ELSE /\ pc' = "md_exists"
                    /\ \E t \in Clock :
                         /\ now' = t
                         /\ metadata' = RecordImport(metadata, import_metadata, t)
  /\ seenLedger' = ledgerDoc
  /\ UNCHANGED <<store, widgets, import_metadata, sha, results, result,
                 others, seenMeta, imported, found>>

\* save_dataframe, line 53: file_exists
SaveDataframeExists ==
  /\ pc = "df_exists"
  /\ \E resp \in Responses(ledgerDoc, MayFail) :
       /\ pc' = IF file_exists(resp) THEN "df_sha" ELSE "df_put"
       /\ found' = file_exists(resp)
       /\ Count(resp, Answer(ledgerDoc))
       /\ response' = resp
  /\ UNCHANGED <<now, store, widgets, metadata, historical_df, locals,
                 results, result, others, seenLedger, seenMeta, imported>>

\* save_dataframe, lines 54-56: get_file_sha
SaveDataframeSha ==
  /\ pc = "df_sha"
  /\ \E resp \in Responses(ledgerDoc, MayFail) :
       /\ sha' = get_file_sha(ledgerDoc, resp)
       /\ Count(resp, Answer(ledgerDoc))
       /\ response' = resp
  /\ pc' = "df_put"
  /\ UNCHANGED <<now, store, widgets, metadata, historical_df,
                 import_metadata, new_data_copy, updated_historical, aggiunte,
                 evitati, results, result, others, history>>

\* what the handler does to the metadata between the save of the ledger and
\* the first request of save_metadata: lines 320-322, 492-498 or 363-364
AfterLedgerSave(t) ==
  CASE clicked.key = "del_imp" -> {remove_import(metadata, clicked.i, t)}
    [] clicked.key = "salva" ->
         update_categories(
           metadata, edited_df(historical_df, clicked.i, clicked.value), t)
    [] OTHER -> {RecordImport(metadata, import_metadata, t)}

\* save_dataframe, lines 59-63: the PUT; then the lines of the handler up to
\* the first request of save_metadata
SaveDataframePut ==
  /\ pc = "df_put"
  /\ \E resp \in PutResponses(ledgerDoc, sha, MayFail) :
       /\ Count(resp, PutAnswer(ledgerDoc, sha))
       /\ response' = resp
       /\ ledgerDoc' = IF resp = "2xx" THEN Blob(to_csv(updated_historical))
                                      ELSE ledgerDoc
       /\ ledger_saved' = SaveResult(resp)
  /\ \E t \in Clock :
       /\ now' = t
       /\ metadata' \in AfterLedgerSave(t)
  /\ pc' = "md_exists"
  /\ UNCHANGED <<metaDoc, widgets, historical_df, import_metadata,
                 new_data_copy, updated_historical, sha, aggiunte, evitati,
                 metadata_saved, message, result, others, history>>

\* save_metadata, lines 109-115: a new request body, without a sha, and
\* file_exists
SaveMetadataExists ==
  /\ pc = "md_exists"
  /\ sha' = NoSha
  /\ \E resp \in Responses(metaDoc, MayFail) :
       /\ pc' = IF file_exists(resp) THEN "md_sha" ELSE "md_put"
       /\ found' = file_exists(resp)
       /\ Count(resp, Answer(metaDoc))
       /\ response' = resp
  /\ UNCHANGED <<now, store, widgets, metadata, historical_df,
                 import_metadata, new_data_copy, updated_historical, aggiunte,
                 evitati, results, result, others, seenLedger, seenMeta,
                 imported>>

\* save_metadata, lines 116-118: get_file_sha
SaveMetadataSha ==
  /\ pc = "md_sha"
  /\ \E resp \in Responses(metaDoc, MayFail) :
       /\ sha' = get_file_sha(metaDoc, resp)
       /\ Count(resp, Answer(metaDoc))
       /\ response' = resp
  /\ pc' = "md_put"
  /\ UNCHANGED <<now, store, widgets, metadata, historical_df,
                 import_metadata, new_data_copy, updated_historical, aggiunte,
                 evitati, results, result, others, history>>

\* what the handler tells the user before st.rerun(): lines 277, 323, 500,
\* 367; the remove-category handler tells nothing
Done ==
  CASE clicked.key = "add_cat_btn" -> "categoria_aggiunta"
    [] clicked.key = "del_cat" -> message
    [] clicked.key = "del_imp" -> "import_rimosso"
    [] clicked.key = "salva" -> "dati_salvati"
    [] OTHER -> "caricato_e_salvato"

\* save_metadata, lines 120-124: the PUT (json.dumps and json.loads are exact
\* on this dict, so the blob holds the dict); then the message of the
\* handler and st.rerun()
SaveMetadataPut ==
  /\ pc = "md_put"
  /\ \E resp \in PutResponses(metaDoc, sha, MayFail) :
       /\ Count(resp, PutAnswer(metaDoc, sha))
       /\ response' = resp
       /\ metaDoc' = IF resp = "2xx" THEN Blob(metadata) ELSE metaDoc
       /\ metadata_saved' = SaveResult(resp)
  /\ message' = Done
  /\ sha' = NoSha
  /\ pc' = "idle"
  /\ UNCHANGED <<now, ledgerDoc, widgets, metadata, historical_df,
                 import_metadata, new_data_copy, updated_historical, aggiunte,
                 evitati, ledger_saved, result, others, history>>

\* Another session of the application imports a file from start to end,
\* with every request answered.
OtherImport ==
  /\ others < MaxOther
  /\ others' = others + 1
  /\ \E f \in OtherFiles, t \in Clock :
       LET md == load_metadata(metaDoc, Answer(metaDoc))
           hist == load_dataframe(ledgerDoc, Answer(ledgerDoc))
           entry == ImportMetadata(f, t)
       IN  /\ now' = t
           /\ ~AlreadyUploaded(f, md)
           /\ \E r \in add_import_to_historical(
                          hist, clean_and_standardize_df(Files[f].rows),
                          entry.import_id) :
                ledgerDoc' = IF r.write THEN Blob(to_csv(r.updated_historical))
                                        ELSE ledgerDoc
           /\ metaDoc' = Blob(RecordImport(md, entry, t))
  /\ UNCHANGED <<pc, widgets, metadata, historical_df, locals, response,
                 results, result, faults, history>>

\* Another writer deletes one of the two documents from the repository.
OtherDelete ==
  /\ others < MaxOther
  /\ others' = others + 1
  /\ \/ ledgerDoc.ex /\ ledgerDoc' = Absent /\ UNCHANGED metaDoc
     \/ metaDoc.ex /\ metaDoc' = Absent /\ UNCHANGED ledgerDoc
  /\ UNCHANGED <<now, pc, widgets, metadata, historical_df, locals, response,
                 results, result, faults, history>>

\* the reading methods of GitHubStorage and the document each is called on
Methods ==
  {<<"file_exists", "ledger">>, <<"get_file_sha", "ledger">>,
   <<"load_dataframe", "ledger">>, <<"file_exists", "metadata">>,
   <<"get_file_sha", "metadata">>, <<"load_metadata", "metadata">>}

\* A reading method is called on its own, with every response the API or
\* the transport can give.
Probe ==
  /\ pc = "idle"
  /\ \E m \in Methods :
       LET doc == IF m[2] = "ledger" THEN ledgerDoc ELSE metaDoc
       IN  \E resp \in Responses(doc, TRUE) :
             result' = [method |-> m[1], doc |-> doc, resp |-> resp,
                        raised |-> GitHubStorage(m[1], doc, resp).raised,
                        value |-> GitHubStorage(m[1], doc, resp).value]
  /\ UNCHANGED <<now, store, pc, widgets, metadata, historical_df, locals,
                 response, results, others, faults, history>>

\* a session that uploads
Next ==
  \/ ScriptRun
  \/ LoadHistorical
  \/ AddImport
  \/ SaveDataframeExists
  \/ SaveDataframeSha
  \/ SaveDataframePut
  \/ SaveMetadataExists
  \/ SaveMetadataSha
  \/ SaveMetadataPut

Spec == Init /\ [][Next]_vars

\* a session that uploads while another session imports
NextConc == Next \/ OtherImport

SpecConc == Init /\ [][NextConc]_vars

\* a session that uploads, clicks the buttons of the sidebar and saves edits
NextApp ==
  \/ ScriptRunApp
  \/ LoadHistorical
  \/ AddImport
  \/ SaveDataframeExists
  \/ SaveDataframeSha
  \/ SaveDataframePut
  \/ SaveMetadataExists
  \/ SaveMetadataSha
  \/ SaveMetadataPut
  \/ AddCategory
  \/ RemoveCategory
  \/ ClickRemoveImport
  \/ ClickSalva

SpecApp == Init /\ [][NextApp]_vars

\* a session that uploads while other writers import and delete
NextRace ==
  \/ ScriptRunRace
  \/ LoadHistorical
  \/ AddImport
  \/ SaveDataframeExists
  \/ SaveDataframeSha
  \/ SaveDataframePut
  \/ SaveMetadataExists
  \/ SaveMetadataSha
  \/ SaveMetadataPut
  \/ OtherImport
  \/ OtherDelete

SpecRace == Init /\ [][NextRace]_vars

\* calls of the reading methods on the documents other writers leave
NextStore == Probe \/ OtherImport \/ OtherDelete

SpecStore == Init /\ [][NextStore]_vars

(***************************************************************************)
(* Properties                                                              *)
(***************************************************************************)
\* the handler of the upload has merged (add_import_to_historical is past
\* its line 178 or has returned)
Merged ==
  \/ pc \in {"df_exists", "df_sha", "df_put", "md_exists", "md_sha", "md_put"}
  \/ pc = "idle" /\ message = "caricato_e_salvato"

\* the batch of the run with its provenance, as line 157 leaves it
Incoming == StampImport(paypal_df, import_metadata.import_id)

Occurrences(df, r) == Cardinality({i \in 1..Len(df) : df[i] = r})

Rows(df) == {df[i] : i \in 1..Len(df)}

\* the same records, each as many times, in any order
SameRecords(a, b) ==
  /\ Len(a) = Len(b)
  /\ \A r \in Rows(a) \cup Rows(b) : Occurrences(a, r) = Occurrences(b, r)

Undated(df) == SelectSeq(df, LAMBDA r : r.data = NaT)

\* non-increasing by date, the undated records after every dated one
SortedByDate(df) ==
  \A i, j \in 1..Len(df) :
    i < j => \/ df[j].data = NaT
             \/ df[i].data # NaT /\ df[i].data >= df[j].data

\* i comes before j in the stable descending order of df
StablyBefore(df, i, j) ==
  \/ ComesBefore(df, i, j)
  \/ df[i].data = df[j].data /\ i < j

\* df sorted by date descending, undated last, equal records in their order
StableSort(df) ==
  [k \in 1..Len(df) |->
     df[CHOOSE i \in 1..Len(df) :
          Cardinality({j \in 1..Len(df) : StablyBefore(df, j, i)}) = k - 1]]

\* C1: a write of the session is accepted only when the blob is still the
\* one the session read; a blob another writer has written since is kept
\* and the write is reported as failed.
C1_NoSilentClobber ==
  [][/\ (pc = "df_put" /\ ledger_saved' = "ok") => ledgerDoc = seenLedger
     /\ (pc = "md_put" /\ metadata_saved' = "ok") => metaDoc = seenMeta]_vars

\* C2: no two records of the persisted ledger share a non-empty transaction
\* code.
C2_DedupInvariant ==
  \A i, j \in 1..Len(ledgerDoc.body) :
    (i # j /\ ledgerDoc.body[i].codice_transazione # "")
      => ledgerDoc.body[i].codice_transazione # ledgerDoc.body[j].codice_transazione

\* add_import_to_historical went on to sort and save (it did not return at
\* line 169)
Written == Merged /\ (Len(historical_df) = 0 \/ aggiunte # None)

\* C3 as stated: the merged ledger is the stable descending sort of the
\* existing ledger followed by the kept rows (records of the same date, and
\* undated records, in their prior relative order).
C3_OrderingStable ==
  Written => updated_historical = StableSort(historical_df \o new_data_copy)

\* C3 as amended: every ledger produced by merge, and the persisted ledger,
\* is non-increasing by date with the undated records last, and the undated
\* records keep their prior relative order.
C3_Ordering ==
  /\ Merged => SortedByDate(updated_historical)
  /\ Written => Undated(updated_historical)
                  = Undated(historical_df \o new_data_copy)
  /\ SortedByDate(read_csv(ledgerDoc.body))

C3_Witness ==
  /\ pc = "df_put"
  /\ Len(Undated(historical_df)) >= 1
  /\ Len(Undated(new_data_copy)) >= 1
  /\ Len(Undated(updated_historical)) < Len(updated_historical)

\* a record as the CSV holds it, without its provenance
Unstamped(r) == [to_csv(<<r>>)[1] EXCEPT !.import_id = ""]

\* every record of the batch is in the ledger the merge loaded
BatchInLedger ==
  \A i \in 1..Len(Incoming) : \E j \in 1..Len(historical_df) :
    Unstamped(historical_df[j]) = Unstamped(Incoming[i])

\* C4: merging a batch into a persisted ledger that already holds the
\* records of that batch adds no record (every request answered).
C4_DedupIdempotent ==
  (Merged /\ faults = 0 /\ Len(historical_df) > 0 /\ BatchInLedger)
    => SameRecords(updated_historical, historical_df)

NoCodes(rows) == \A k \in 1..Len(rows) : rows[k].codice_transazione = NaN

IsSynthetic(code) == \E i \in 1..9 : code = CodiceSintetico(i)

\* C5: a batch without transaction codes merged into a ledger made of
\* another batch without transaction codes keeps every one of its records.
C5_SyntheticKeyScoping ==
  ( /\ Merged
    /\ NoCodes(Files[uploaded_file].rows)
    /\ Len(historical_df) > 0
    /\ \A j \in 1..Len(historical_df) :
         IsSynthetic(historical_df[j].codice_transazione)
    /\ \A i \in 1..Len(Incoming), j \in 1..Len(historical_df) :
         Unstamped(historical_df[j]) # Unstamped(Incoming[i]) )
    => \A i \in 1..Len(Incoming) :
         Occurrences(updated_historical, Incoming[i]) >= 1

\* C6: an upload whose fingerprint is that of an earlier import is skipped:
\* the merge is not reached and nothing is written.
C6_FileLevelDedup ==
  [][(/\ pc = "load_historical"
      /\ uploaded_file # NoFile
      /\ Files[uploaded_file].hash \in imported)
       => (pc' = "idle" /\ message' = "file_gia_caricato" /\ store' = store)]_vars

\* the rows of the batch whose code does not occur in the loaded ledger
Kept ==
  SelectSeq(Incoming,
            LAMBDA r : \A j \in 1..Len(historical_df) :
                         historical_df[j].codice_transazione # r.codice_transazione)

\* C7: merged into a non-empty ledger, the result holds the records of the
\* ledger unchanged plus the rows of the batch whose code does not occur in
\* it; the counts reported are those of the kept and of the dropped rows.
C7_FirstSeenWins ==
  (Merged /\ Len(historical_df) > 0)
    => /\ SameRecords(updated_historical, historical_df \o Kept)
       /\ Len(Kept) > 0 => /\ aggiunte = Len(Kept)
                           /\ evitati = Len(Incoming) - Len(Kept)
                           /\ new_data_copy = Kept

C7_Witness ==
  /\ pc = "idle"
  /\ message = "caricato_e_salvato"
  /\ ledger_saved = "ok"
  /\ {historical_df[j].codice_transazione : j \in 1..Len(historical_df)} = {"A", "B"}
  /\ {Incoming[i].codice_transazione : i \in 1..Len(Incoming)} = {"B", "C"}
  /\ aggiunte = 1
  /\ evitati = 1
  /\ Len(read_csv(ledgerDoc.body)) = 3

\* C8: the upload is reported as loaded and saved only if neither the save
\* of the ledger nor the save of the metadata failed.
C8_SuccessOnlyIfBothSaved ==
  message = "caricato_e_salvato"
    => (ledger_saved # "failed" /\ metadata_saved # "failed")

\* C9: when the save of the ledger fails the import stops: no entry is
\* appended to import_history and the metadata document is not written.
C9_FailedLedgerWriteIsFatal ==
  [][(pc = "df_put" /\ ledger_saved' = "failed")
       => (pc' = "idle" /\ metadata' = metadata /\ metaDoc' = metaDoc)]_vars

\* every code of the batch is in the loaded ledger
AllCodesPresent ==
  \A i \in 1..Len(Incoming) : \E j \in 1..Len(historical_df) :
    historical_df[j].codice_transazione = Incoming[i].codice_transazione

\* C10: when the loaded ledger is not empty and holds every code of the
\* batch, merge returns it unchanged and the import sends no write of the
\* ledger: the blob is the one the merge loaded.
C10_NoWriteWhenAllDuplicates ==
  (Merged /\ Len(historical_df) > 0 /\ AllCodesPresent)
    => /\ updated_historical = historical_df
       /\ pc \notin {"df_exists", "df_sha", "df_put"}
       /\ ledger_saved = "none"
       /\ ledgerDoc = seenLedger

C10_Witness ==
  /\ pc = "idle"
  /\ message = "caricato_e_salvato"
  /\ metadata_saved = "ok"
  /\ Len(historical_df) > 0
  /\ AllCodesPresent
  /\ ledgerDoc.ex

\* C11: when the remove-import handler ends with both saves succeeding, in a
\* session whose every request was answered, the persisted history has no entry, and the persisted ledger no record, of
\* the import_id removed, and holds every other entry and record as before,
\* in the same order.
C11_RemoveImport ==
  [][(/\ pc = "md_put"
      /\ clicked.key = "del_imp"
      /\ faults = 0
      /\ ledger_saved = "ok"
      /\ metadata_saved' = "ok")
       => LET before == seenMeta.body["import_history"]
              id == before[clicked.i].import_id
          IN  /\ metaDoc'.body["import_history"]
                   = SelectSeq(before, LAMBDA e : e.import_id # id)
              /\ ledgerDoc'.body
                   = SelectSeq(seenLedger.body, LAMBDA r : r.import_id # id)]_vars

\* the category removed by a click on the bin of the i-th category: the
\* i-th of the list the run loaded
Removed(md, i) == Get(md, "categories", <<>>)[i]

\* C12: the remove-category handler takes the name out of the categories
\* and drops its entry of the subcategories, every other category and entry
\* staying; the run sends no write of the ledger and the ledger document
\* stays as it is, and a successful save persists the document so made.
C12_RemoveCategoryFrame ==
  [][/\ (pc = "idle" /\ clicked'.key = "del_cat" /\ pc' = "md_exists")
          => LET md == load_metadata(metaDoc, response')
                 name == Removed(md, clicked'.i)
             IN  /\ metadata'["categories"]
                      = SelectSeq(md["categories"], LAMBDA c : c # name)
                 /\ Get(metadata', "subcategories", EmptyDict)
                      = DictDel(Get(md, "subcategories", EmptyDict), name)
                 /\ Get(metadata', "import_history", <<>>)
                      = Get(md, "import_history", <<>>)
     /\ clicked'.key = "del_cat"
          => /\ ledgerDoc' = ledgerDoc
             /\ pc' \notin {"df_exists", "df_sha", "df_put"}
             /\ ledger_saved' = "none"
     /\ (pc = "md_put" /\ clicked.key = "del_cat" /\ metadata_saved' = "ok")
          => metaDoc' = Blob(metadata)]_vars

C12_Witness ==
  /\ pc = "idle"
  /\ faults = 0
  /\ clicked.key = "del_cat"
  /\ metadata_saved = "ok"
  /\ seenMeta.ex
  /\ clicked.i <= Len(seenMeta.body["categories"])
  /\ Removed(seenMeta.body, clicked.i) \notin Range(metaDoc.body["categories"])
  /\ \E k \in 1..Len(ledgerDoc.body) :
       ledgerDoc.body[k].categoria = Removed(seenMeta.body, clicked.i)

\* no element twice
Distinct(l) == \A i, j \in 1..Len(l) : i # j => l[i] # l[j]

\* the add-category handler left the document alone
AddCategoryNoOp ==
  /\ clicked.key = "add_cat_btn"
  /\ message \in {"categoria_gia_esistente", "nome_non_valido"}

\* C13: a click on 'Aggiungi' with a text that is blank after trimming, or
\* whose trimmed form is a category already, changes nothing and writes
\* nothing; any other text appends its trimmed form once to the categories
\* and gives it an empty list of subcategories.  No list of categories, in
\* the session or persisted, holds a name twice.
C13_AddCategory ==
  [][/\ (pc = "idle" /\ clicked'.key = "add_cat_btn")
          => LET md == load_metadata(metaDoc, response')
                 categories == Get(md, "categories", <<>>)
                 name == Strip(clicked'.value)
             IN  IF name = "" \/ name \in Range(categories)
                 THEN /\ metadata' = md
                      /\ AddCategoryNoOp'
                      /\ pc' = "load_historical"
                 ELSE /\ metadata'["categories"] = Append(categories, name)
                      /\ metadata'["subcategories"][name] = <<>>
                      /\ \A k \in DOMAIN Get(md, "subcategories", EmptyDict) :
                           metadata'["subcategories"][k] = md["subcategories"][k]
                      /\ pc' = "md_exists"
     /\ AddCategoryNoOp'
          => /\ pc' \in {"load_historical", "idle"}
             /\ metadata_saved' = "none"
             /\ metaDoc' = metaDoc
             /\ metaDoc' = seenMeta'
     /\ Distinct(Get(metadata', "categories", <<>>))
     /\ metaDoc'.ex => Distinct(Get(metaDoc'.body, "categories", <<>>))]_vars

C13_Witness ==
  /\ pc = "idle"
  /\ faults = 0
  /\ clicked = Click("add_cat_btn", 0, " Viaggi ")
  /\ metadata_saved = "ok"
  /\ seenMeta.ex
  /\ metaDoc.body["categories"] = Append(seenMeta.body["categories"], "Viaggi")
  /\ metaDoc.body["subcategories"]["Viaggi"] = <<>>
  /\ Len(seenMeta.body["import_history"]) > 0

\* C14: no two entries of the persisted import_history carry the same
\* import_id (every request of the session answered).
C14_ImportIdUnique ==
  (faults = 0 /\ metaDoc.ex)
    => \A i, j \in 1..Len(Get(metaDoc.body, "import_history", <<>>)) :
         i # j => metaDoc.body["import_history"][i].import_id
                    # metaDoc.body["import_history"][j].import_id

\* every key of the subcategories is a category
Taxonomy(md) ==
  DOMAIN Get(md, "subcategories", EmptyDict) \subseteq Range(Get(md, "categories", <<>>))

\* C15: in the metadata of the session and in the persisted document, every
\* key of subcategories is an element of categories.
C15_TaxonomyInvariant ==
  /\ Taxonomy(metadata)
  /\ metaDoc.ex => Taxonomy(metaDoc.body)

C15_Witness ==
  /\ pc = "idle"
  /\ clicked.key = "del_cat"
  /\ metadata_saved = "ok"
  /\ seenMeta.ex
  /\ clicked.i <= Len(seenMeta.body["categories"])
  /\ Removed(seenMeta.body, clicked.i) \in DOMAIN seenMeta.body["subcategories"]
  /\ Removed(seenMeta.body, clicked.i) \notin DOMAIN metaDoc.body["subcategories"]
  /\ "Viaggi" \in DOMAIN metaDoc.body["subcategories"]

\* C16: a ledger handed to save_dataframe and loaded again by load_dataframe
\* has the same records in the same order with every field equal, the empty
\* strings and the transaction codes included.
C16_RoundTrip ==
  pc \in {"df_exists", "df_sha", "df_put"}
    => read_csv(to_csv(updated_historical)) = updated_historical

\* C17: a reading method of the store ends with a value for every response
\* (200, another status, a transport exception), never with an exception:
\* file_exists with whether the status is 200, get_file_sha with the sha or
\* None, load_dataframe with the decoded frame or the empty frame,
\* load_metadata with the decoded document, the default document or {}.
C17_StoreNeverRaises ==
  /\ ~result.raised
  /\ result.method = "file_exists"
       => result.value = (result.resp = "200")
  /\ result.method = "get_file_sha"
       => result.value = IF result.resp = "200" THEN ShaOf(result.doc) ELSE NoSha
  /\ result.method = "load_dataframe"
       => result.value = IF result.resp = "200" THEN read_csv(result.doc.body)
                                                ELSE EmptyDataFrame
  /\ result.method = "load_metadata"
       => result.value = CASE result.resp = "200" -> result.doc.body
                           [] result.resp = "non200" -> DefaultMetadata
                           [] OTHER -> EmptyDict

C17_Witness ==
  /\ result.method = "load_metadata"
  /\ result.resp = "exc"
  /\ result.doc.ex
  /\ ~result.raised
  /\ result.value = EmptyDict

\* C18: save_dataframe and save_metadata return True exactly when the PUT
\* was answered 200 or 201, and then the document is the one sent; for any
\* other status (a version conflict included) and for a transport exception
\* they return False and the document is as it was, as it is after the two
\* requests that precede the PUT.
C18_WriteResult ==
  [][/\ (pc = "df_put" /\ pc' = "md_exists")
          => /\ (ledger_saved' = "ok") <=> (response' = "2xx")
             /\ ledger_saved' = "ok"
                  => ledgerDoc' = Blob(to_csv(updated_historical))
             /\ ledger_saved' # "ok"
                  => (ledger_saved' = "failed" /\ ledgerDoc' = ledgerDoc)
     /\ (pc = "md_put" /\ pc' = "idle")
          => /\ (metadata_saved' = "ok") <=> (response' = "2xx")
             /\ metadata_saved' = "ok" => metaDoc' = Blob(metadata)
             /\ metadata_saved' # "ok"
                  => (metadata_saved' = "failed" /\ metaDoc' = metaDoc)
     /\ (pc \in {"df_exists", "df_sha", "md_exists", "md_sha"} /\ pc' # pc)
          => store' = store]_vars

C18_Witness ==
  /\ pc = "md_exists"
  /\ faults = 0
  /\ others > 0
  /\ response = "non2xx"
  /\ ledger_saved = "failed"
  /\ seenLedger.ex
  /\ ledgerDoc.ex
  /\ ledgerDoc # seenLedger

\* C19: the document every handler hands to save_metadata is stamped with
\* the time of the call; every metadata document the session writes carries
\* that stamp, and the stamp of a document written is not earlier than the
\* stamp of the document it replaces.
C19_LastUpdate ==
  [][/\ (pc' = "md_exists" /\ pc # "md_exists")
          => Get(metadata', "last_update", -1) = now'
     /\ metaDoc' # metaDoc
          => /\ Get(metaDoc'.body, "last_update", -1) = now'
             /\ metaDoc.ex
                  => Get(metaDoc'.body, "last_update", -1)
                       >= Get(metaDoc.body, "last_update", -1)]_vars

C19_Witness ==
  /\ pc = "idle"
  /\ clicked.key = "add_cat_btn"
  /\ metadata_saved = "ok"
  /\ seenMeta.ex
  /\ seenMeta.body["last_update"] = 0
  /\ metaDoc.body["last_update"] = 1
  /\ now = 1

\* a token that is not the version of the document the PUT meets
Stale(token, doc) == token.some /\ (~doc.ex \/ token # ShaOf(doc))

\* C20: in the exists / sha / PUT sequence of a save, a PUT that carries a
\* token which is no longer the version of the document (another writer
\* changed the document after the token was fetched) is refused, the save
\* returns False and the document stays as the other writer left it; when the
\* document is deleted between file_exists and get_file_sha the PUT carries
\* no token and, unless the request fails, creates the document; no save
\* returns True after sending a token that differs from the version of the
\* document at the PUT.
C20_ResidualRace ==
  [][/\ (pc = "df_sha" /\ pc' = "df_put" /\ ~ledgerDoc.ex) => sha' = NoSha
     /\ (pc = "md_sha" /\ pc' = "md_put" /\ ~metaDoc.ex) => sha' = NoSha
     /\ (pc = "df_put" /\ pc' = "md_exists")
          => /\ Stale(sha, ledgerDoc)
                  => (ledger_saved' = "failed" /\ ledgerDoc' = ledgerDoc)
             /\ (found /\ sha = NoSha /\ ~ledgerDoc.ex /\ faults' = faults)
                  => /\ ledger_saved' = "ok"
                     /\ ledgerDoc' = Blob(to_csv(updated_historical))
             /\ ledger_saved' = "ok" => ~Stale(sha, ledgerDoc)
     /\ (pc = "md_put" /\ pc' = "idle")
          => /\ Stale(sha, metaDoc)
                  => (metadata_saved' = "failed" /\ metaDoc' = metaDoc)
             /\ (found /\ sha = NoSha /\ ~metaDoc.ex /\ faults' = faults)
                  => (metadata_saved' = "ok" /\ metaDoc' = Blob(metadata))
             /\ metadata_saved' = "ok" => ~Stale(sha, metaDoc)]_vars

\* the ledger was there when the run read it and when file_exists asked for
\* it, it was gone when get_file_sha asked, and the save made it anew
C20_Witness ==
  /\ pc = "md_exists"
  /\ faults = 0
  /\ seenLedger.ex
  /\ found
  /\ sha = NoSha
  /\ ledger_saved = "ok"
  /\ ledgerDoc = Blob(to_csv(updated_historical))

\* C21: an import never loses persisted records: whenever the upload handler
\* has saved the ledger, every record the ledger document held before the
\* save is in the document after it, also when the load of the ledger at the
\* start of the import failed while the document was there.
C21_ImportKeepsRecords ==
  [][(uploaded_file # NoFile /\ pc = "df_put" /\ pc' = "md_exists"
        /\ ledgerDoc.ex)
       => /\ ledgerDoc'.ex
          /\ Range(ledgerDoc.body) \subseteq Range(ledgerDoc'.body)]_vars

\* the import_history of a metadata document
HistoryOf(doc) == IF doc.ex THEN Get(doc.body, "import_history", <<>>) ELSE <<>>

\* C22: an entry of the persisted import_history leaves the persisted
\* document only through the remove-import handler clicked on an entry of
\* its import_id: no other write of the metadata document, after whatever
\* failure of a read, stores a document without it.
C22_HistoryEntriesKept ==
  [][\A e \in Range(HistoryOf(metaDoc)) :
       \/ e \in Range(HistoryOf(metaDoc'))
       \/ /\ clicked.key = "del_imp"
          /\ clicked.i <= Len(HistoryOf(seenMeta))
          /\ HistoryOf(seenMeta)[clicked.i].import_id = e.import_id]_vars

\* the records of the ledger document
LedgerOf(doc) == IF doc.ex THEN doc.body ELSE <<>>

\* C23: when no run is under way, every import_id carried by a record of
\* the persisted ledger has an entry in the persisted import_history, also
\* after a run in which one of the two writes failed.
C23_ProvenanceCovered ==
  pc = "idle"
    => \A r \in Range(LedgerOf(ledgerDoc)) :
         \E e \in Range(HistoryOf(metaDoc)) : e.import_id = r.import_id

\* the non-empty transaction codes of the batch a history entry stands for
BatchCodes(e) ==
  UNION {{clean_and_standardize_df(Files[f].rows)[i].codice_transazione :
            i \in 1..Len(Files[f].rows)} :
           f \in {g \in 1..Len(Files) : Files[g].hash = e.file_hash}} \ {""}

\* the transaction codes of the persisted ledger
LedgerCodes ==
  {LedgerOf(ledgerDoc)[i].codice_transazione : i \in 1..Len(LedgerOf(ledgerDoc))}

\* C24: after imports and removals whose requests were all answered, every
\* non-empty transaction code of every batch listed in the persisted
\* import_history is in the persisted ledger.
C24_HistoryBacked ==
  (pc = "idle" /\ faults = 0)
    => \A e \in Range(HistoryOf(metaDoc)) : BatchCodes(e) \subseteq LedgerCodes

\* C25: when the merge of an import finds no new record (the ledger is not
\* saved), the handler appends no entry to import_history and the metadata
\* document in the repository stays as it is.
C25_EntryOnlyForNewRecords ==
  [][/\ (pc = "add_import" /\ pc' = "md_exists")
          => Get(metadata', "import_history", <<>>)
               = Get(metadata, "import_history", <<>>)
     /\ (uploaded_file # NoFile /\ ledger_saved = "none" /\ pc = "md_put")
          => metaDoc' = metaDoc]_vars

\* C26: the save of an edit of one row of the ledger changes, in the ledger
\* document, only the editable field of that record: the document has the
\* same number of records in the same order, every other record is as it
\* was, and the record edited keeps its code, date, name and provenance.
C26_EditSaveFrame ==
  [][(clicked.key = "salva" /\ pc = "df_put" /\ pc' = "md_exists"
        /\ ledgerDoc.ex)
       => /\ ledgerDoc'.ex
          /\ Len(ledgerDoc'.body) = Len(ledgerDoc.body)
          /\ \A k \in 1..Len(ledgerDoc.body) :
               IF k = clicked.i
               THEN ledgerDoc'.body[k] =
                      [ledgerDoc.body[k] EXCEPT
                         !.categoria = ledgerDoc'.body[k].categoria]
               ELSE ledgerDoc'.body[k] = ledgerDoc.body[k]]_vars

====
